---- MODULE Spec2Model ----
(***************************************************************************)
(* rustcolors (src/main.rs): parsing of a colour given on the command      *)
(* line, RGB <-> HSL conversion, hue rotation and the colour harmonies.    *)
(*                                                                         *)
(* A string is a sequence of Unicode code points; its UTF-8 byte length is *)
(* computed from the code points, because the parser measures and slices   *)
(* its input in bytes.  An f64 is a rational number [n, d] in lowest terms: *)
(* every comparison of the conversions sits on a point where the two       *)
(* branches agree, so the only place where the error of the doubles can    *)
(* show is the final rounding of a channel that is exactly half way        *)
(* between two integers; there both neighbours are outcomes.               *)
(***************************************************************************)
EXTENDS Integers, Sequences, FiniteSets

VARIABLES input, pc, parsed, hsl, out

vars == <<input, pc, parsed, hsl, out>>

\* ---------------------------------------------------------------- bounds
\* Longest input drawn from every string over Alphabet.
MaxLen == 4
\* Number of sample values per channel of the colours fed to the program.
GridN == 7

\* Largest value of a u8 channel.
U8Max == 255

\* ---------------------------------------------------------------- strings
\* ' ', '#', '+', ',', '0', '5', 'f', 'z', U+20AC (3 bytes in UTF-8)
Alphabet == {32, 35, 43, 44, 48, 53, 102, 122, 8364}

\* char::len_utf8
ByteLen(c) == IF c < 128 THEN 1 ELSE IF c < 2048 THEN 2 ELSE IF c < 65536 THEN 3 ELSE 4

\* str::len: the length in bytes
RECURSIVE StrByteLen(_)
StrByteLen(s) == IF s = <<>> THEN 0 ELSE ByteLen(Head(s)) + StrByteLen(Tail(s))

\* char::is_whitespace (the Unicode White_Space property)
IsWhitespace(c) ==
    \/ c \in 9..13
    \/ c \in {32, 133, 160, 5760, 8232, 8233, 8239, 8287, 12288}
    \/ c \in 8192..8202

RECURSIVE TrimStart(_)
TrimStart(s) ==
    IF s # <<>> /\ IsWhitespace(Head(s)) THEN TrimStart(Tail(s)) ELSE s

RECURSIVE TrimEnd(_)
TrimEnd(s) ==
    IF s # <<>> /\ IsWhitespace(s[Len(s)]) THEN TrimEnd(SubSeq(s, 1, Len(s) - 1)) ELSE s

\* str::trim
Trim(s) == TrimEnd(TrimStart(s))

\* s.starts_with('#')
StartsWithHash(s) == s # <<>> /\ Head(s) = 35

\* char::is_ascii_hexdigit
IsAsciiHexDigit(c) == c \in 48..57 \/ c \in 65..70 \/ c \in 97..102

\* s.chars().all(|c| c.is_ascii_hexdigit())
AllHexDigits(s) == \A i \in 1..Len(s) : IsAsciiHexDigit(s[i])

\* Byte offset at which the i-th character of s starts.
ByteOffset(s, i) == StrByteLen(SubSeq(s, 1, i - 1))

\* str::is_char_boundary
IsCharBoundary(s, k) == \E i \in 1..(Len(s) + 1) : ByteOffset(s, i) = k

\* &s[a..b]: the characters in the byte range, or a panic when a or b is
\* not on a character boundary.
ByteSlice(s, a, b) ==
    IF a <= b /\ IsCharBoundary(s, a) /\ IsCharBoundary(s, b)
    THEN [panic |-> FALSE,
          str |-> LET first == CHOOSE i \in 1..(Len(s) + 1) : ByteOffset(s, i) = a
                      last == CHOOSE i \in 1..(Len(s) + 1) : ByteOffset(s, i) = b
                  IN SubSeq(s, first, last - 1)]
    ELSE [panic |-> TRUE, str |-> <<>>]

\* char::to_digit(radix), -1 for None
ToDigit(c, radix) ==
    LET v == IF c \in 48..57 THEN c - 48
             ELSE IF c \in 97..122 THEN c - 97 + 10
             ELSE IF c \in 65..90 THEN c - 65 + 10
             ELSE radix
    IN IF v < radix THEN v ELSE -1

\* The digit loop of u8::from_str_radix: -1 for an invalid digit or an
\* overflow of the u8.
RECURSIVE Accumulate(_, _, _)
Accumulate(digits, radix, acc) ==
    IF digits = <<>> THEN acc
    ELSE LET d == ToDigit(Head(digits), radix)
         IN IF d < 0 \/ acc * radix + d > U8Max THEN -1
            ELSE Accumulate(Tail(digits), radix, acc * radix + d)

\* u8::from_str_radix: an empty string, a lone sign and a '-' are errors, one
\* leading '+' is accepted.
FromStrRadix(src, radix) ==
    LET digits == IF src # <<>> /\ Head(src) = 43 THEN Tail(src) ELSE src
        v == IF digits = <<>> THEN -1 ELSE Accumulate(digits, radix, 0)
    IN [ok |-> v >= 0, val |-> IF v >= 0 THEN v ELSE 0]

\* str::split(','), collected
RECURSIVE SplitComma(_, _)
SplitComma(s, cur) ==
    IF s = <<>> THEN <<cur>>
    ELSE IF Head(s) = 44 THEN <<cur>> \o SplitComma(Tail(s), <<>>)
    ELSE SplitComma(Tail(s), Append(cur, Head(s)))

\* ---------------------------------------------------------------- parser
NoRGB == [r |-> 0, g |-> 0, b |-> 0]

Ok(r, g, b) == [kind |-> "Ok", rgb |-> [r |-> r, g |-> g, b |-> b], err |-> ""]

Err(msg) == [kind |-> "Err", rgb |-> NoRGB, err |-> msg]

Panic == [kind |-> "Panic", rgb |-> NoRGB, err |-> "byte index is not a char boundary"]

\* Fault: a string of decimal digits only is taken for an r,g,b colour.
IsHexFormat_digits_decimal(s) ==
    StartsWithHash(s) \/ (AllHexDigits(s) /\ \E i \in 1..Len(s) : s[i] \notin 48..57)

\* s.starts_with('#') || s.chars().all(|c| c.is_ascii_hexdigit())
IsHexFormat(s) == StartsWithHash(s) \/ AllHexDigits(s)

\* Fault: `hex.len() < 6` as the test that rejects.
HexLenOk_lt(hex) == StrByteLen(hex) >= 6

\* hex.len() != 6, negated
HexLenOk(hex) == StrByteLen(hex) = 6

\* The hex branch of from_str
ParseHex(s) ==
    LET hexs == IF StartsWithHash(s) THEN ByteSlice(s, 1, StrByteLen(s))
                ELSE [panic |-> FALSE, str |-> s]
        hex == hexs.str
        p1 == ByteSlice(hex, 0, 2)
        p2 == ByteSlice(hex, 2, 4)
        p3 == ByteSlice(hex, 4, 6)
        r == FromStrRadix(p1.str, 16)
        g == FromStrRadix(p2.str, 16)
        b == FromStrRadix(p3.str, 16)
    IN IF hexs.panic THEN Panic
       ELSE IF ~HexLenOk(hex)
            THEN Err("Invalid hex color format. Expected RRGGBB or #RRGGBB")
       ELSE IF p1.panic THEN Panic
       ELSE IF ~r.ok THEN Err("Invalid red component")
       ELSE IF p2.panic THEN Panic
       ELSE IF ~g.ok THEN Err("Invalid green component")
       ELSE IF p3.panic THEN Panic
       ELSE IF ~b.ok THEN Err("Invalid blue component")
       ELSE Ok(r.val, g.val, b.val)

\* Fault: `parts.len() < 3` as the test that rejects.
PartsLenOk_lt(parts) == Len(parts) >= 3

\* parts.len() != 3, negated
PartsLenOk(parts) == Len(parts) = 3

\* The r,g,b branch of from_str
ParseDecimal(s) ==
    LET parts == SplitComma(s, <<>>)
        r == FromStrRadix(Trim(parts[1]), 10)
        g == FromStrRadix(Trim(parts[2]), 10)
        b == FromStrRadix(Trim(parts[3]), 10)
    IN IF ~PartsLenOk(parts) THEN Err("Invalid RGB format. Expected r,g,b")
       ELSE IF ~r.ok THEN Err("Invalid red component")
       ELSE IF ~g.ok THEN Err("Invalid green component")
       ELSE IF ~b.ok THEN Err("Invalid blue component")
       ELSE Ok(r.val, g.val, b.val)

\* <RGB as FromStr>::from_str
from_str(str) ==
    LET s == Trim(str)
    IN IF IsHexFormat(s) THEN ParseHex(s) ELSE ParseDecimal(s)

\* ---------------------------------------------------------------- f64
\* An f64 value: the rational n/d, d > 0, in lowest terms.
RECURSIVE GCD(_, _)
GCD(a, b) == IF b = 0 THEN a ELSE GCD(b, a % b)

Abs(n) == IF n < 0 THEN -n ELSE n

Rat(n, d) ==
    LET g == GCD(Abs(n), Abs(d))
        sgn == IF d < 0 THEN -1 ELSE 1
    IN [n |-> sgn * (n \div g), d |-> sgn * (d \div g)]

F(n) == [n |-> n, d |-> 1]

FAdd(x, y) ==
    LET g == GCD(x.d, y.d)
    IN Rat(x.n * (y.d \div g) + y.n * (x.d \div g), (x.d \div g) * y.d)

FNeg(x) == [n |-> -x.n, d |-> x.d]

FSub(x, y) == FAdd(x, FNeg(y))

FMul(x, y) ==
    LET g1 == GCD(Abs(x.n), y.d)
        g2 == GCD(Abs(y.n), x.d)
    IN IF x.n = 0 \/ y.n = 0 THEN F(0)
       ELSE [n |-> (x.n \div g1) * (y.n \div g2), d |-> (x.d \div g2) * (y.d \div g1)]

\* x / y for y # 0 (the conversions never divide by zero)
FDiv(x, y) == FMul(x, Rat(y.d, y.n))

FLt(x, y) == x.n * y.d < y.n * x.d

FLe(x, y) == ~FLt(y, x)

FMax(x, y) == IF FLt(x, y) THEN y ELSE x

FMin(x, y) == IF FLt(y, x) THEN y ELSE x

\* f64 % f64: the remainder has the sign of the dividend
FRem(x, y) ==
    LET q == FDiv(x, y)
        t == IF q.n >= 0 THEN q.n \div q.d ELSE -((-q.n) \div q.d)
    IN FSub(x, FMul(F(t), y))

\* f64::round followed by `as u8`: the nearest integer, saturated to the
\* u8; a value half way between two integers is decided by the rounding
\* error of the doubles that led to it, so both neighbours are outcomes.
RoundAsU8(x) ==
    LET lo == x.n \div x.d
        sat(v) == IF v < 0 THEN 0 ELSE IF v > U8Max THEN U8Max ELSE v
    IN IF x.d = 2 THEN {sat(lo), sat(lo + 1)}
       ELSE {sat((2 * x.n + x.d) \div (2 * x.d))}

\* ---------------------------------------------------------------- colours
NoHSL == [h |-> F(0), s |-> F(0), l |-> F(0)]

\* RGB::to_hex
to_hex(rgb) ==
    LET digit(v) == IF v < 10 THEN 48 + v ELSE 55 + v
        two(v) == <<digit(v \div 16), digit(v % 16)>>
    IN <<35>> \o two(rgb.r) \o two(rgb.g) \o two(rgb.b)

\* to_hsl: r.max(g.max(b))
channel_max(r, g, b) == FMax(r, FMax(g, b))

\* Fault: r.min(g.max(b)).
channel_min_typo(r, g, b) == FMin(r, FMax(g, b))

\* to_hsl: r.min(g.min(b))
channel_min(r, g, b) == FMin(r, FMin(g, b))

\* Fault: the formula of the dark colours used for every lightness.
saturation_one_branch(max, min, delta, l) == FDiv(delta, FAdd(max, min))

\* to_hsl: the saturation of a colour with delta # 0
saturation(max, min, delta, l) ==
    IF FLt(l, Rat(1, 2))
    THEN FDiv(delta, FAdd(max, min))
    ELSE FDiv(delta, FSub(FSub(F(2), max), min))

\* Fault: the red sector without its `if g < b { 6.0 }`.
hue_no_wrap(r, g, b, max, delta) ==
    IF max = r
    THEN FDiv(FSub(g, b), delta)
    ELSE IF max = g
    THEN FAdd(FDiv(FSub(b, r), delta), F(2))
    ELSE FAdd(FDiv(FSub(r, g), delta), F(4))

\* to_hsl: the hue, in sixths of the circle, of a colour with delta # 0
hue(r, g, b, max, delta) ==
    IF max = r
    THEN FAdd(FDiv(FSub(g, b), delta), IF FLt(g, b) THEN F(6) ELSE F(0))
    ELSE IF max = g
    THEN FAdd(FDiv(FSub(b, r), delta), F(2))
    ELSE FAdd(FDiv(FSub(r, g), delta), F(4))

\* RGB::to_hsl
to_hsl(rgb) ==
    LET r == FDiv(F(rgb.r), F(255))
        g == FDiv(F(rgb.g), F(255))
        b == FDiv(F(rgb.b), F(255))
        max == channel_max(r, g, b)
        min == channel_min(r, g, b)
        delta == FSub(max, min)
        l == FDiv(FAdd(max, min), F(2))
        s == saturation(max, min, delta, l)
        h == hue(r, g, b, max, delta)
    IN IF delta # F(0)
       THEN [h |-> FMul(h, F(60)), s |-> FMul(s, F(100)), l |-> FMul(l, F(100))]
       ELSE [h |-> F(0), s |-> FMul(F(0), F(100)), l |-> FMul(l, F(100))]

\* hue_to_rgb, the helper of HSL::to_rgb: the set of its outcomes
hue_to_rgb(p, q, t0) ==
    LET t1 == IF FLt(t0, F(0)) THEN FAdd(t0, F(1)) ELSE t0
        t == IF FLt(F(1), t1) THEN FSub(t1, F(1)) ELSE t1
        color == IF FLt(t, Rat(1, 6))
                 THEN FAdd(p, FMul(FMul(FSub(q, p), F(6)), t))
                 ELSE IF FLt(t, Rat(1, 2))
                 THEN q
                 ELSE IF FLt(t, Rat(2, 3))
                 THEN FAdd(p, FMul(FMul(FSub(q, p), FSub(Rat(2, 3), t)), F(6)))
                 ELSE p
    IN RoundAsU8(FMul(color, F(255)))

\* HSL::to_rgb: the set of its outcomes
to_rgb(x) ==
    LET h == FDiv(x.h, F(360))
        s == FDiv(x.s, F(100))
        l == FDiv(x.l, F(100))
        q == IF FLt(l, Rat(1, 2))
             THEN FMul(l, FAdd(F(1), s))
             ELSE FSub(FAdd(l, s), FMul(l, s))
        p == FSub(FMul(F(2), l), q)
    IN {[r |-> r, g |-> g, b |-> b] :
            r \in hue_to_rgb(p, q, FAdd(h, Rat(1, 3))),
            g \in hue_to_rgb(p, q, h),
            b \in hue_to_rgb(p, q, FSub(h, Rat(1, 3)))}

\* The HSL value RGB::rotate_hue hands to to_rgb
rotated_hsl(rgb, degrees) ==
    LET x == to_hsl(rgb)
    IN [x EXCEPT !.h = FRem(FAdd(x.h, F(degrees)), F(360))]

\* RGB::rotate_hue: the set of its outcomes
rotate_hue(rgb, degrees) == to_rgb(rotated_hsl(rgb, degrees))

\* Fault: the complement of colour theory, a half turn of the hue.
complement_by_hue(rgb) == CHOOSE c \in rotate_hue(rgb, 180) : TRUE

\* RGB::complement; a u8 subtraction that underflowed would wrap (release
\* build) instead of giving 255 - channel.
complement(rgb) ==
    LET sub(a, c) == IF a >= c THEN a - c ELSE a - c + U8Max + 1
    IN [r |-> sub(255, rgb.r), g |-> sub(255, rgb.g), b |-> sub(255, rgb.b)]

\* Fault: the two rotations in the other order.
triads_swapped(rgb) ==
    {<<rgb, a, b>> : a \in rotate_hue(rgb, 240), b \in rotate_hue(rgb, 120)}

\* RGB::triads: the set of its outcomes
triads(rgb) ==
    {<<rgb, a, b>> : a \in rotate_hue(rgb, 120), b \in rotate_hue(rgb, 240)}

\* Fault: 240 for the last rotation, as in triads.
tetrads_240(rgb) ==
    {<<rgb, a, b, c>> : a \in rotate_hue(rgb, 90), b \in rotate_hue(rgb, 180),
                        c \in rotate_hue(rgb, 240)}

\* RGB::tetrads: the set of its outcomes
tetrads(rgb) ==
    {<<rgb, a, b, c>> : a \in rotate_hue(rgb, 90), b \in rotate_hue(rgb, 180),
                        c \in rotate_hue(rgb, 270)}

\* The rotations the harmonies use.
Degrees == {90, 120, 180, 240, 270}

\* ---------------------------------------------------------------- inputs
RECURSIVE Strings(_)
Strings(n) ==
    IF n = 0 THEN {<<>>}
    ELSE LET shorter == Strings(n - 1)
         IN shorter \cup {Append(s, c) : s \in {x \in shorter : Len(x) = n - 1}, c \in Alphabet}

Channels == {(i * U8Max) \div (GridN - 1) : i \in 0..(GridN - 1)} \cup {1, 128}

Colours == [r : Channels, g : Channels, b : Channels]

\* Two-character groups of a hex colour, well formed and not:
\* "00" "ff" "7F" "1a" "+f" "-1" "zz", the two-byte U+00E9 and the
\* three-byte U+20AC
HexGroups ==
    {<<48, 48>>, <<102, 102>>, <<55, 70>>, <<49, 97>>, <<43, 102>>, <<45, 49>>,
     <<122, 122>>, <<233>>, <<8364>>}

\* Parts of an r,g,b colour, well formed and not:
\* "0" "255" "256" "+5" "-0" " 12 " "" "1 2" "f" "007"
DecParts ==
    {<<48>>, <<50, 53, 53>>, <<50, 53, 54>>, <<43, 53>>, <<45, 48>>, <<32, 49, 50, 32>>,
     <<>>, <<49, 32, 50>>, <<102>>, <<48, 48, 55>>}

Pads == {<<>>, <<32>>}

Inputs ==
    Strings(MaxLen)
    \cup {to_hex(c) : c \in Colours}
    \cup {p \o h \o a \o b \o c \o p :
            p \in Pads, h \in {<<>>, <<35>>}, a \in HexGroups, b \in HexGroups, c \in HexGroups}
    \cup {p \o a \o <<44>> \o b \o <<44>> \o c \o p :
            p \in Pads, a \in DecParts, b \in DecParts, c \in DecParts}
    \cup {<<49, 49, 50, 50, 51, 51>>, <<32, 49, 49, 50, 50, 51, 51, 32>>}

\* ---------------------------------------------------------------- program
Init ==
    /\ input \in Inputs
    /\ pc = "start"
    /\ parsed = Err("")
    /\ hsl = NoHSL
    /\ out = <<>>

\* main: RGB::from_str(&color); an error ends the process with exit(1), a
\* panic aborts it.
FromStr ==
    /\ pc = "start"
    /\ parsed' = from_str(input)
    /\ pc' = IF parsed'.kind = "Ok" THEN "parsed"
             ELSE IF parsed'.kind = "Err" THEN "exit" ELSE "panic"
    /\ UNCHANGED <<input, hsl, out>>

\* harmonies: rgb.complement()
Complement ==
    /\ pc = "parsed"
    /\ out' = <<complement(parsed.rgb)>>
    /\ pc' = "complement"
    /\ UNCHANGED <<input, parsed, hsl>>

\* harmonies: rgb.triads()
Triads ==
    /\ pc = "parsed"
    /\ out' \in triads(parsed.rgb)
    /\ pc' = "triads"
    /\ UNCHANGED <<input, parsed, hsl>>

\* harmonies: rgb.tetrads()
Tetrads ==
    /\ pc = "parsed"
    /\ out' \in tetrads(parsed.rgb)
    /\ pc' = "tetrads"
    /\ UNCHANGED <<input, parsed, hsl>>

\* One rotation of the harmonies, with the HSL value it converts back.
RotateHue ==
    /\ pc = "parsed"
    /\ \E degrees \in Degrees :
          /\ hsl' = rotated_hsl(parsed.rgb, degrees)
          /\ \E c \in to_rgb(hsl') : out' = <<c>>
    /\ pc' = "rotate_hue"
    /\ UNCHANGED <<input, parsed>>

\* convert hsl: rgb.to_hsl()
ToHsl ==
    /\ pc = "parsed"
    /\ hsl' = to_hsl(parsed.rgb)
    /\ pc' = "to_hsl"
    /\ UNCHANGED <<input, parsed, out>>

\* hsl.to_rgb() on the value to_hsl returned
ToRgb ==
    /\ pc = "to_hsl"
    /\ \E c \in to_rgb(hsl) : out' = <<c>>
    /\ pc' = "to_rgb"
    /\ UNCHANGED <<input, parsed, hsl>>

Next == FromStr \/ Complement \/ Triads \/ Tetrads \/ RotateHue \/ ToHsl \/ ToRgb

Spec == Init /\ [][Next]_vars

\* ---------------------------------------------------------------- properties
\* The colour from_str returned.
Rgb == parsed.rgb

\* from_str has returned to main (with Ok or with Err).
Returned == pc \notin {"start", "panic"}

Trimmed == Trim(input)

HexDigitChars == (48..57) \cup (65..70) \cup (97..102)

\* The input is one the parser takes for a hex colour.
ClassifiedHex ==
    \/ Trimmed # <<>> /\ Trimmed[1] = 35
    \/ \A i \in 1..Len(Trimmed) : Trimmed[i] \in HexDigitChars

\* What is left of the input once one leading '#' is removed.
HexBody == IF Trimmed # <<>> /\ Trimmed[1] = 35 THEN Tail(Trimmed) ELSE Trimmed

SixHexDigits(s) == Len(s) = 6 /\ \A i \in 1..6 : s[i] \in HexDigitChars

HexValue(c) == IF c \in 48..57 THEN c - 48 ELSE IF c \in 65..70 THEN c - 55 ELSE c - 87

HexPair(s, i) == 16 * HexValue(s[i]) + HexValue(s[i + 1])

InvalidFormat ==
    /\ parsed.kind = "Err"
    /\ parsed.err \in {"Invalid hex color format. Expected RRGGBB or #RRGGBB",
                       "Invalid RGB format. Expected r,g,b"}

ChannelError(name) ==
    /\ parsed.kind = "Err"
    /\ parsed.err = "Invalid " \o name \o " component"

Achromatic(c) == c.r = c.g /\ c.g = c.b

Largest(c) == CHOOSE v \in {c.r, c.g, c.b} : \A w \in {c.r, c.g, c.b} : w <= v

Smallest(c) == CHOOSE v \in {c.r, c.g, c.b} : \A w \in {c.r, c.g, c.b} : v <= w

\* |a - b| <= 1 on every channel
WithinOne(a, b) == \A f \in {"r", "g", "b"} : a[f] - b[f] \in {-1, 0, 1}

\* How far the step from the hue of colour a to the hue of colour b is from
\* 90 degrees (mod 360).
HueStepError(a, b) ==
    LET step == FRem(FAdd(FSub(to_hsl(b).h, to_hsl(a).h), F(360)), F(360))
    IN IF FLt(step, F(90)) THEN FSub(F(90), step) ELSE FSub(step, F(90))

\* C1: to_hsl followed by to_rgb returns the colour it started from to
\* within 1 on every channel.
C1_RoundTrip == pc = "to_rgb" => Len(out) = 1 /\ WithinOne(out[1], Rgb)

C1_Witness ==
    /\ pc = "to_rgb"
    /\ Rgb = [r |-> 255, g |-> 1, b |-> 128]
    /\ out = <<Rgb>>

\* C2: from_str returns for every input; it never panics.
C2_NoPanic == pc # "panic"

C4_SixHexDigits ==
    (pc # "start" /\ SixHexDigits(HexBody))
        => parsed = Ok(HexPair(HexBody, 1), HexPair(HexBody, 3), HexPair(HexBody, 5))

C4_Witness ==
    /\ pc = "parsed"
    /\ input = <<32, 49, 49, 50, 50, 51, 51, 32>>
    /\ Rgb = [r |-> 17, g |-> 34, b |-> 51]

\* The value of a part of an r,g,b colour: a base-10 integer in 0..255
\* (one leading '+' allowed) between optional whitespace; -1 otherwise.
RECURSIVE DecNumber(_)
DecNumber(digits) ==
    IF digits = <<>> THEN 0
    ELSE 10 * DecNumber(SubSeq(digits, 1, Len(digits) - 1)) + digits[Len(digits)] - 48

DecValue(part) ==
    LET t == Trim(part)
        digits == IF t # <<>> /\ t[1] = 43 THEN Tail(t) ELSE t
    IN IF /\ digits # <<>>
          /\ \A i \in 1..Len(digits) : digits[i] \in 48..57
          /\ DecNumber(digits) <= 255
       THEN DecNumber(digits) ELSE -1

\* C5: an input that is not hex fails with InvalidFormat unless the commas
\* cut it in exactly 3 parts; then the first part, in the order red, green,
\* blue, that is not a base-10 integer in 0..255 gives that channel's error,
\* and three good parts give their colour.
C5_Decimal ==
    (pc # "start" /\ ~ClassifiedHex) =>
        LET commas == {i \in 1..Len(Trimmed) : Trimmed[i] = 44}
            c1 == CHOOSE i \in commas : \A j \in commas : i <= j
            c2 == CHOOSE i \in commas : \A j \in commas : j <= i
            red == DecValue(SubSeq(Trimmed, 1, c1 - 1))
            green == DecValue(SubSeq(Trimmed, c1 + 1, c2 - 1))
            blue == DecValue(SubSeq(Trimmed, c2 + 1, Len(Trimmed)))
        IN IF Cardinality(commas) # 2 THEN pc = "exit" /\ InvalidFormat
           ELSE IF red < 0 THEN pc = "exit" /\ ChannelError("red")
           ELSE IF green < 0 THEN pc = "exit" /\ ChannelError("green")
           ELSE IF blue < 0 THEN pc = "exit" /\ ChannelError("blue")
           ELSE parsed = Ok(red, green, blue)

C5_Witness ==
    /\ pc = "exit"
    /\ input = <<48, 44, 50, 53, 54, 44, 102>>
    /\ ChannelError("green")

\* C6 as claimed: tetrads has 4 elements and the hue of each element after
\* the first is 90 degrees (mod 360) after the hue of the one before it,
\* to within a tolerance (a whole sector of 60 degrees here), for every
\* colour.
C6_Original ==
    pc = "tetrads" =>
        /\ Len(out) = 4
        /\ \A i \in 1..3 : FLt(HueStepError(out[i], out[i + 1]), F(60))

\* C6: tetrads has 4 elements, the first the colour itself.  When the
\* channels are not all equal the hue of each element after the first is 90
\* degrees (mod 360) after the hue of the one before it, to within less than
\* 60 / (max - min) degrees, the hue of one step of an 8-bit channel; when
\* they are all equal the four elements are the colour itself and their hue
\* is 0.
C6_Tetrads ==
    pc = "tetrads" =>
        /\ Len(out) = 4
        /\ out[1] = Rgb
        /\ IF Achromatic(Rgb)
           THEN \A i \in 1..4 : out[i] = Rgb /\ to_hsl(out[i]).h = F(0)
           ELSE \A i \in 1..3 :
                   FLt(FMul(HueStepError(out[i], out[i + 1]), F(Largest(Rgb) - Smallest(Rgb))),
                       F(60))

C6_Witness ==
    /\ pc = "tetrads"
    /\ Rgb = [r |-> 0, g |-> 0, b |-> 1]
    /\ out[2] = [r |-> 1, g |-> 0, b |-> 1]
    /\ HueStepError(out[1], out[2]) = F(30)

\* C7: triads is the colour itself, then its rotation by 120 degrees, then
\* its rotation by 240 degrees; for pure red these are pure red, pure green
\* and pure blue, of hues 0, 120 and 240.
C7_Triads ==
    pc = "triads" =>
        /\ Len(out) = 3
        /\ out[1] = Rgb
        /\ out[2] \in rotate_hue(Rgb, 120)
        /\ out[3] \in rotate_hue(Rgb, 240)
        /\ Rgb = [r |-> 255, g |-> 0, b |-> 0] =>
              /\ out = <<[r |-> 255, g |-> 0, b |-> 0], [r |-> 0, g |-> 255, b |-> 0],
                         [r |-> 0, g |-> 0, b |-> 255]>>
              /\ <<to_hsl(out[1]).h, to_hsl(out[2]).h, to_hsl(out[3]).h>>
                     = <<F(0), F(120), F(240)>>

C7_Witness ==
    /\ pc = "triads"
    /\ Rgb = [r |-> 255, g |-> 0, b |-> 0]
    /\ out[3] = [r |-> 0, g |-> 0, b |-> 255]

\* C8: complement returns 255 minus each channel, a u8 every time.
C8_Complement ==
    pc = "complement" =>
        /\ Len(out) = 1
        /\ \A f \in {"r", "g", "b"} : out[1][f] \in 0..255 /\ out[1][f] = 255 - Rgb[f]

C8_Witness ==
    /\ pc = "complement"
    /\ Rgb = [r |-> 0, g |-> 0, b |-> 0]
    /\ out = <<[r |-> 255, g |-> 255, b |-> 255]>>

\* C9: to_hsl gives hue 0 and saturation 0 to a colour with r = g = b and
\* a saturation above 0 to every other colour.
C9_Achromatic ==
    pc = "to_hsl" =>
        IF Achromatic(Rgb) THEN hsl.h = F(0) /\ hsl.s = F(0) ELSE FLt(F(0), hsl.s)

C9_Witness ==
    /\ pc = "to_hsl"
    /\ Rgb = [r |-> 128, g |-> 128, b |-> 128]
    /\ hsl.h = F(0)
    /\ hsl.s = F(0)

\* C10: to_hsl returns 0 <= h < 360, 0 <= s <= 100 and 0 <= l <= 100, and
\* the hue rotate_hue hands to to_rgb for the rotations of the harmonies is
\* in [0, 360) too.
C10_Ranges ==
    /\ pc = "to_hsl" =>
          /\ FLe(F(0), hsl.h) /\ FLt(hsl.h, F(360))
          /\ FLe(F(0), hsl.s) /\ FLe(hsl.s, F(100))
          /\ FLe(F(0), hsl.l) /\ FLe(hsl.l, F(100))
    /\ pc = "rotate_hue" => FLe(F(0), hsl.h) /\ FLt(hsl.h, F(360))

C10_Witness ==
    /\ pc = "rotate_hue"
    /\ FLt(F(300), to_hsl(Rgb).h)
    /\ FLt(hsl.h, F(90))

====
